---- MODULE Spec2Model ----
(***************************************************************************)
(* Model of extension/backend/main.py: the FITS table viewer backend.      *)
(* One run of the script is one behaviour: main() parses the arguments,    *)
(* then either lists the HDUs of the file (get_hdu_info) or streams one    *)
(* table HDU as line-delimited JSON (stream_table_data).                   *)
(*                                                                         *)
(* Conventions.                                                            *)
(*  - An optional value (Python None or a value) is a sequence of length   *)
(*    0 or 1: None == <<>>, Some(v) == <<v>>.                              *)
(*  - A formatted text is the sequence of its pieces (the literal parts    *)
(*    and the formatted numbers), so that two texts joined by a blank are  *)
(*    the concatenation of their pieces.                                   *)
(*  - A cell value is not enumerated: the value of row r, native column c, *)
(*    array element e is the record [row |-> r, src |-> c, comp |-> e]     *)
(*    (comp = 0 for a scalar cell).                                        *)
(*  - A JSON object is a record, except a row object, which is the         *)
(*    sequence of its (name, value) members in the order json.dumps        *)
(*    writes them.                                                         *)
(*  - The fields of the argparse namespace and the parameters of           *)
(*    stream_table_data are immutable; each is bound at the step that      *)
(*    first reads it.                                                      *)
(***************************************************************************)
EXTENDS Integers, Sequences, FiniteSets, TLC

\* ---------------------------------------------------------------- bounds
MaxRows == 3      \* a table has 0..MaxRows rows
MaxCols == 2      \* a table has 1..MaxCols native columns
MaxDim == 3       \* an array cell has 2..MaxDim elements
MaxCap == 1       \* --max-rows and --max-cols range over -1..MaxCap
MaxChunk == 2     \* chunk_size ranges over 1..MaxChunk and the default

\* the default of the chunk_size parameter
DefaultChunkSize == 500

None == <<>>
Some(v) == <<v>>

\* ------------------------------------------------------- the environment
\* Names a FITS table may give its columns (TTYPEn keywords).
ColNames == {"POS", "POS_1", "FLUX"}

\* Element counts of a native column: 0 is a scalar column (shape (n,)),
\* k > 1 is an array column of shape (n, k).
Dims == {0} \cup (2..MaxDim)

RECURSIVE NativeLists(_)
\* All lists of at most n native columns with pairwise distinct names.
NativeLists(n) ==
    IF n = 0 THEN {<<>>}
    ELSE LET shorter == NativeLists(n - 1)
             ext == { t \in shorter \X ColNames \X Dims :
                        /\ Len(t[1]) = n - 1
                        /\ \A j \in 1..Len(t[1]) : t[1][j].name # t[2] }
         IN shorter \cup { Append(t[1], [name |-> t[2], k |-> t[3]]) : t \in ext }

\* The column lists of the table HDUs considered.
NativeColumns == { l \in NativeLists(MaxCols) : Len(l) >= 1 }

\* The path given on the command line.
file_path == "t.fits"

\* What fits.open(file_path) yields for a readable FITS file: a primary HDU
\* followed by one binary table extension without EXTNAME.
hdul == << [name |-> "PRIMARY", class |-> "PrimaryHDU"],
           [name |-> "", class |-> "BinTableHDU"] >>

\* isinstance(hdu, (fits.BinTableHDU, fits.TableHDU))
IsTableHDU(hdu) == hdu.class \in {"BinTableHDU", "TableHDU"}

VARIABLES
    file_kind,        \* "missing", "corrupt" or "fits": what is at file_path
    hdu_columns,      \* the table HDU's native columns (hdu.columns)
    hdu_nrows,        \* the table HDU's row count (len(hdu.data))
    pc,               \* position of the run
    command,          \* args.command
    hdu_index,        \* args.hdu_index, None when absent
    max_rows,         \* args.max_rows
    max_cols,         \* args.max_cols
    chunk_size,       \* parameter chunk_size of stream_table_data
    hdul_state,       \* "unopened", "open" or "closed": the fits.open handle
    rows_to_process,  \* local of stream_table_data
    warning_message,  \* local of stream_table_data, None or a text
    column_names,     \* local of stream_table_data
    rows_sent,        \* local of stream_table_data
    i,                \* loop variable of stream_table_data
    exc,              \* the exception being propagated, None or str(e)
    result,           \* the value get_hdu_info returned, None before
    stdout,           \* the lines printed so far
    exit_code         \* None while running, then Some(0) or Some(1)

env == <<file_kind, hdu_columns, hdu_nrows>>
args == <<command, hdu_index, max_rows, max_cols, chunk_size>>
locals == <<rows_to_process, warning_message, column_names, rows_sent, i>>
vars == <<env, args, locals, pc, hdul_state, exc, result, stdout, exit_code>>

Min(a, b) == IF a < b THEN a ELSE b

\* ------------------------------------------------------------ the tables
\* Table(hdu.data[lo:hi]): the rows lo .. hi-1 of the table HDU that exist,
\* with every native column.
Table(lo, hi) ==
    LET stop == Min(hi, hdu_nrows)
        n == IF stop > lo THEN stop - lo ELSE 0
    IN [cols |-> [j \in 1..Len(hdu_columns) |->
                    [name |-> hdu_columns[j].name, k |-> hdu_columns[j].k,
                     src |-> hdu_columns[j].name, comp |-> 0]],
        rows |-> [r \in 1..n |-> lo + r - 1]]

\* table.colnames
colnames(cols) == [j \in 1..Len(cols) |-> cols[j].name]

\* table[name] for a column name of the table
Column(cols, name) == cols[CHOOSE j \in 1..Len(cols) : cols[j].name = name]

\* table[names]: the table of the named columns, in the order of names
Select(table, names) ==
    [table EXCEPT !.cols = [j \in 1..Len(names) |-> Column(table.cols, names[j])]]

\* table[name] = column: replaces the column of that name where it stands,
\* or appends a new column after the last one.
SetItem(cols, name, column) ==
    IF \E j \in 1..Len(cols) : cols[j].name = name
    THEN [j \in 1..Len(cols) |-> IF cols[j].name = name THEN column ELSE cols[j]]
    ELSE Append(cols, column)

\* del table[name]
DelItem(cols, name) == SelectSeq(cols, LAMBDA c : c.name # name)

\* f"{name}_{i+1}"
PartName(name, n) == name \o "_" \o ToString(n + 1)

RECURSIVE SplitColumn(_, _, _)
\* for i in range(table[name].shape[1]): table[f"{name}_{i+1}"] = table[name][:, i]
\* from iteration n on.
SplitColumn(cols, name, n) ==
    LET c == Column(cols, name)
    IN IF n >= c.k THEN cols
       ELSE SplitColumn(
                SetItem(cols, PartName(name, n),
                        [name |-> PartName(name, n), k |-> 0,
                         src |-> c.src, comp |-> n + 1]),
                name, n + 1)

RECURSIVE FixNames(_, _)
\* The loop "for name in names" of fix_multi_dim_tables.
FixNames(cols, names) ==
    IF names = <<>> THEN cols
    ELSE LET name == Head(names)
         IN IF Column(cols, name).k > 0
            THEN FixNames(DelItem(SplitColumn(cols, name, 0), name), Tail(names))
            ELSE FixNames(cols, Tail(names))

\* fix_multi_dim_tables(table)
fix_multi_dim_tables(table) ==
    LET names == colnames(SelectSeq(table.cols, LAMBDA c : c.k > 0))
    IN [table EXCEPT !.cols = FixNames(table.cols, names)]

\* to_pandas() raises on a column that still has array cells.
ConvertsToPandas(table) == \A j \in 1..Len(table.cols) : table.cols[j].k = 0

\* json.loads(df.to_json(orient="table", index=False))["schema"]
TableSchema(table) ==
    [fields |-> [j \in 1..Len(table.cols) |-> [name |-> table.cols[j].name]]]

\* json.loads(df.to_json(orient="records", default_handler=str))
Records(table) ==
    [r \in 1..Len(table.rows) |->
        [j \in 1..Len(table.cols) |->
            [name |-> table.cols[j].name,
             value |-> [row |-> table.rows[r], src |-> table.cols[j].src,
                        comp |-> table.cols[j].comp]]]]

\* ---------------------------------------------------------- the messages
\* f"Warning: Displaying first {max_rows} of {total_rows} rows."
RowWarning(cap, total) ==
    <<"Warning: ", "Displaying first ", ToString(cap), " of ", ToString(total), " rows.">>

\* f"Displaying first {max_cols} of {total_cols} columns."
ColWarning(cap, total) ==
    <<"Displaying first ", ToString(cap), " of ", ToString(total), " columns.">>

\* f"{warning_message} {col_warning}" if warning_message else f"Warning: {col_warning}"
JoinWarning(warning, col_warning) ==
    IF warning # None THEN Some(warning[1] \o <<" ">> \o col_warning)
    ELSE Some(<<"Warning: ">> \o col_warning)

\* {"error": text}
ErrorMessage(text) == [error |-> text]

\* The message printed for a table without rows.
EmptyMessage == [schema |-> [fields |-> <<>>], data |-> <<>>, total_rows |-> 0]

\* schema_only_message
SchemaMessage(schema, warning, total) ==
    [schema |-> schema, data |-> <<>>, warning |-> warning, total_rows |-> total]

\* progress_message repeating the warning of the schema message
ProgressMessage_withWarning(records, sent) ==
    [data |-> records, progress |-> sent, warning |-> warning_message]

\* progress_message with the size of the window in place of the running total
ProgressMessage_windowSize(records, sent) == [data |-> records, progress |-> Len(records)]

\* progress_message
ProgressMessage(records, sent) == [data |-> records, progress |-> sent]

\* The JSON array get_hdu_info returns, as one line of output.
InfoMessage(hdu_info) == [array |-> hdu_info]

\* The list hdu_info built by get_hdu_info.
HduInfo ==
    [n \in 1..Len(hdul) |->
        [index |-> n - 1,
         name |-> IF hdul[n].name # "" THEN hdul[n].name ELSE "HDU " \o ToString(n - 1),
         is_table |-> IsTableHDU(hdul[n]),
         type |-> hdul[n].class]]

\* --------------------------------------------------------------- the run
\* The argument values considered.
Commands == {"info", "data"}
HduIndexArgs == {None} \cup {Some(n) : n \in -1..Len(hdul)}
CapArgs == -1..MaxCap
ChunkSizes == (1..MaxChunk) \cup {DefaultChunkSize}

Init ==
    /\ file_kind \in {"missing", "corrupt", "fits"}
    /\ IF file_kind = "fits"
       THEN hdu_columns \in NativeColumns /\ hdu_nrows \in 0..MaxRows
       ELSE hdu_columns = <<>> /\ hdu_nrows = 0
    /\ pc = "main"
    /\ command = None /\ hdu_index = None
    /\ max_rows = None /\ max_cols = None /\ chunk_size = None
    /\ hdul_state = "unopened"
    /\ rows_to_process = None /\ warning_message = None /\ column_names = None
    /\ rows_sent = None /\ i = None
    /\ exc = None /\ result = None
    /\ stdout = <<>>
    /\ exit_code = None

\* print(..., flush=True) followed by sys.exit(code)
PrintAndExit(message, code) ==
    /\ stdout' = Append(stdout, message)
    /\ exit_code' = Some(code)
    /\ pc' = "done"

\* An exception propagating from a file opened without the with statement:
\* nothing closes the handle.
Raise_noClose(text) ==
    /\ exc' = Some(text)
    /\ pc' = "except"
    /\ UNCHANGED hdul_state

\* An exception leaves the "with fits.open(...)" block: the handle is closed,
\* then the except clause of stream_table_data runs.
Raise(text) ==
    /\ hdul_state' = "closed"
    /\ exc' = Some(text)
    /\ pc' = "except"

\* main(): parse the arguments, check the path, dispatch on the command.
Main(cmd, idx) ==
    /\ pc = "main"
    /\ command' = Some(cmd)
    /\ hdu_index' = idx
    /\ IF file_kind = "missing"
       THEN PrintAndExit(ErrorMessage("File does not exist at path: " \o file_path), 1)
       ELSE IF cmd = "info"
       THEN pc' = "get_hdu_info" /\ UNCHANGED <<stdout, exit_code>>
       ELSE IF idx = None
       THEN PrintAndExit(ErrorMessage("HDU index is required for the 'data' command."), 1)
       ELSE pc' = "stream_table_data" /\ UNCHANGED <<stdout, exit_code>>
    /\ UNCHANGED <<env, max_rows, max_cols, chunk_size, locals, hdul_state, exc, result>>

\* get_hdu_info(): open the file, list its HDUs, close it, return the JSON text.
GetHduInfo ==
    /\ pc = "get_hdu_info"
    /\ IF file_kind = "corrupt"
       THEN /\ result' = Some(ErrorMessage("Failed to read FITS file: " \o "decode error"))
            /\ UNCHANGED hdul_state
       ELSE /\ result' = Some(InfoMessage(HduInfo))
            /\ hdul_state' = "closed"
    /\ pc' = "info_print"
    /\ UNCHANGED <<env, args, locals, exc, stdout, exit_code>>

\* print(get_hdu_info(args.file_path)), after which main() returns.
InfoPrint ==
    /\ pc = "info_print"
    /\ PrintAndExit(result[1], 0)
    /\ UNCHANGED <<env, args, locals, hdul_state, exc, result>>

\* stream_table_data, line 50: fits.open(file_path)
StreamOpen ==
    /\ pc = "stream_table_data"
    /\ IF file_kind = "corrupt"
       THEN exc' = Some("decode error") /\ pc' = "except" /\ UNCHANGED hdul_state
       ELSE hdul_state' = "open" /\ pc' = "validate" /\ UNCHANGED exc
    /\ UNCHANGED <<env, args, locals, result, stdout, exit_code>>

\* The index check without its lower bound: a negative index counts from the
\* end of the HDU list.
Validate_noLowerBound ==
    /\ pc = "validate"
    /\ LET n == hdu_index[1]
           at == IF n < 0 THEN Len(hdul) + n + 1 ELSE n + 1
       IN IF ~(n < Len(hdul))
          THEN Raise("HDU index " \o ToString(n) \o " is out of bounds.")
          ELSE IF ~IsTableHDU(hdul[at])
          THEN Raise("HDU " \o ToString(n) \o " ('" \o hdul[at].name
                       \o "') is not a table HDU.")
          ELSE pc' = "limits" /\ UNCHANGED <<hdul_state, exc>>
    /\ UNCHANGED <<env, args, locals, result, stdout, exit_code>>

\* stream_table_data, lines 51-56: the index and the kind of the HDU
Validate ==
    /\ pc = "validate"
    /\ LET n == hdu_index[1]
       IN IF ~(0 <= n /\ n < Len(hdul))
          THEN Raise("HDU index " \o ToString(n) \o " is out of bounds.")
          ELSE IF ~IsTableHDU(hdul[n + 1])
          THEN Raise("HDU " \o ToString(n) \o " ('" \o hdul[n + 1].name
                       \o "') is not a table HDU.")
          ELSE pc' = "limits" /\ UNCHANGED <<hdul_state, exc>>
    /\ UNCHANGED <<env, args, locals, result, stdout, exit_code>>

\* The row limit without the comparison with total_rows
RowLimit_noTotalCheck(mr, total_rows) ==
    IF mr > 0
    THEN [rows |-> mr, warning |-> Some(RowWarning(mr, total_rows))]
    ELSE [rows |-> total_rows, warning |-> None]

\* rows_to_process and the row warning, lines 61-66
RowLimit(mr, total_rows) ==
    IF mr > 0 /\ total_rows > mr
    THEN [rows |-> mr, warning |-> Some(RowWarning(mr, total_rows))]
    ELSE [rows |-> total_rows, warning |-> None]

\* column_names and the final warning, lines 68-72
ColLimit(mc, names, warning) ==
    IF mc > 0 /\ Len(names) > mc
    THEN [names |-> SubSeq(names, 1, mc),
          warning |-> JoinWarning(warning, ColWarning(mc, Len(names)))]
    ELSE [names |-> names, warning |-> warning]

\* stream_table_data, lines 58-72: the row and column limits. Reading
\* hdu.data decodes the table and may fail.
Limits(mr, mc, ok) ==
    /\ pc = "limits"
    /\ max_rows' = Some(mr)
    /\ max_cols' = Some(mc)
    /\ IF ~ok
       THEN Raise("decode error") /\ UNCHANGED locals
       ELSE LET rl == RowLimit(mr, hdu_nrows)
                cl == ColLimit(mc, colnames(hdu_columns), rl.warning)
            IN /\ rows_to_process' = Some(rl.rows)
               /\ warning_message' = cl.warning
               /\ column_names' = Some(cl.names)
               /\ pc' = "schema"
               /\ UNCHANGED <<rows_sent, i, hdul_state, exc>>
    /\ UNCHANGED <<env, command, hdu_index, chunk_size, result, stdout, exit_code>>

\* temp_table, line 79
ProbeTable == Select(Table(0, 1), column_names[1])

\* The window without the selection of column_names
ChunkTable_allColumns(lo, hi) == Table(lo, hi)

\* astropy_table_chunk, line 96
ChunkTable(lo, hi) == Select(Table(lo, hi), column_names[1])

\* The zero-row branch without its return: the probe and the (empty) loop
\* follow the first message.
EmptyTable_noReturn ==
    /\ pc = "schema"
    /\ rows_to_process[1] = 0
    /\ stdout' = stdout \o <<EmptyMessage,
                  SchemaMessage(TableSchema(fix_multi_dim_tables(ProbeTable)),
                                warning_message, rows_to_process[1])>>
    /\ rows_sent' = Some(0)
    /\ i' = Some(0)
    /\ pc' = "loop"
    /\ UNCHANGED <<env, args, rows_to_process, warning_message, column_names,
                   hdul_state, exc, result, exit_code>>

\* A table without rows reported as a failure
EmptyTable_raise ==
    /\ pc = "schema"
    /\ rows_to_process[1] = 0
    /\ Raise("no rows")
    /\ UNCHANGED <<env, args, locals, result, stdout, exit_code>>

\* stream_table_data, lines 74-76: a table without rows is answered at once.
EmptyTable ==
    /\ pc = "schema"
    /\ rows_to_process[1] = 0
    /\ hdul_state' = "closed"
    /\ PrintAndExit(EmptyMessage, 0)
    /\ UNCHANGED <<env, args, locals, exc, result>>

\* stream_table_data, lines 79-92: the schema message from a probe of one row.
Schema(cs, ok) ==
    /\ pc = "schema"
    /\ rows_to_process[1] # 0
    /\ chunk_size' = Some(cs)
    /\ LET fixed == fix_multi_dim_tables(ProbeTable)
       IN IF ~ok \/ ~ConvertsToPandas(fixed)
          THEN Raise("decode error") /\ UNCHANGED <<stdout, rows_sent, i>>
          ELSE /\ stdout' = Append(stdout,
                       SchemaMessage(TableSchema(fixed), warning_message,
                                     rows_to_process[1]))
               /\ rows_sent' = Some(0)
               /\ i' = Some(0)
               /\ pc' = "loop"
               /\ UNCHANGED <<hdul_state, exc>>
    /\ UNCHANGED <<env, command, hdu_index, max_rows, max_cols, rows_to_process,
                   warning_message, column_names, result, exit_code>>

\* The loop with end = i + chunk_size, not limited to rows_to_process
Chunk_noRowLimit(ok) ==
    /\ pc = "loop"
    /\ i[1] < rows_to_process[1]
    /\ LET end == i[1] + chunk_size[1]
           fixed == fix_multi_dim_tables(ChunkTable(i[1], end))
           json_records == Records(fixed)
       IN IF ~ok \/ ~ConvertsToPandas(fixed)
          THEN Raise("decode error") /\ UNCHANGED <<stdout, rows_sent, i>>
          ELSE /\ rows_sent' = Some(rows_sent[1] + Len(json_records))
               /\ stdout' = Append(stdout,
                       ProgressMessage(json_records, rows_sent[1] + Len(json_records)))
               /\ i' = Some(i[1] + chunk_size[1])
               /\ UNCHANGED <<pc, hdul_state, exc>>
    /\ UNCHANGED <<env, args, rows_to_process, warning_message, column_names,
                   result, exit_code>>

\* stream_table_data, lines 93-108: one iteration of the loop over the windows.
Chunk(ok) ==
    /\ pc = "loop"
    /\ i[1] < rows_to_process[1]
    /\ LET end == Min(i[1] + chunk_size[1], rows_to_process[1])
           fixed == fix_multi_dim_tables(ChunkTable(i[1], end))
           json_records == Records(fixed)
       IN IF ~ok \/ ~ConvertsToPandas(fixed)
          THEN Raise("decode error") /\ UNCHANGED <<stdout, rows_sent, i>>
          ELSE /\ rows_sent' = Some(rows_sent[1] + Len(json_records))
               /\ stdout' = Append(stdout,
                       ProgressMessage(json_records, rows_sent[1] + Len(json_records)))
               /\ i' = Some(i[1] + chunk_size[1])
               /\ UNCHANGED <<pc, hdul_state, exc>>
    /\ UNCHANGED <<env, args, rows_to_process, warning_message, column_names,
                   result, exit_code>>

\* The range is exhausted: the with block closes the file, stream_table_data
\* and main() return.
Return ==
    /\ pc = "loop"
    /\ i[1] >= rows_to_process[1]
    /\ hdul_state' = "closed"
    /\ exit_code' = Some(0)
    /\ pc' = "done"
    /\ UNCHANGED <<env, args, locals, exc, result, stdout>>

\* The except clause without sys.exit(1): the function returns normally.
Except_noExit ==
    /\ pc = "except"
    /\ PrintAndExit(ErrorMessage(exc[1]), 0)
    /\ UNCHANGED <<env, args, locals, hdul_state, exc, result>>

\* stream_table_data, lines 110-113: the except clause
Except ==
    /\ pc = "except"
    /\ PrintAndExit(ErrorMessage(exc[1]), 1)
    /\ UNCHANGED <<env, args, locals, hdul_state, exc, result>>

Next ==
    \/ \E cmd \in Commands, idx \in HduIndexArgs : Main(cmd, idx)
    \/ GetHduInfo
    \/ InfoPrint
    \/ StreamOpen
    \/ Validate
    \/ \E mr \in CapArgs, mc \in CapArgs, ok \in BOOLEAN : Limits(mr, mc, ok)
    \/ EmptyTable
    \/ \E cs \in ChunkSizes, ok \in BOOLEAN : Schema(cs, ok)
    \/ \E ok \in BOOLEAN : Chunk(ok)
    \/ Return
    \/ Except

Spec == Init /\ [][Next]_vars

\* ------------------------------------------------------------ the claims
IsSchemaMessage(m) == "schema" \in DOMAIN m
IsDataMessage(m) == "progress" \in DOMAIN m
IsErrorMessage(m) == "error" \in DOMAIN m
IsInfoMessage(m) == "array" \in DOMAIN m

Range(s) == {s[n] : n \in DOMAIN s}
Last(s) == s[Len(s)]
DataMessages == SelectSeq(stdout, IsDataMessage)
ErrorCount == Len(SelectSeq(stdout, IsErrorMessage))
IsData == command = Some("data")
IsInfo == command = Some("info")

\* The key set of a row object and the column set of a schema.
RowKeys(row) == {row[j].name : j \in DOMAIN row}
SchemaKeys(schema) == {schema.fields[j].name : j \in DOMAIN schema.fields}

\* pieces occurs in text as a run of consecutive pieces
Contains(text, pieces) ==
    \E at \in 0..(Len(text) - Len(pieces)) :
        \A n \in 1..Len(pieces) : text[at + n] = pieces[n]

\* C1: in an export of at least one row that does not fail, the progress
\* values of the successive data messages never decrease, and the progress
\* of the last data message is the total_rows of the schema message.
C1_ProgressReachesTotal ==
    /\ \A a \in DOMAIN DataMessages, b \in DOMAIN DataMessages :
          a <= b => DataMessages[a].progress <= DataMessages[b].progress
    /\ (pc = "done" /\ IsData /\ exit_code = Some(0) /\ rows_to_process # None
          /\ rows_to_process # Some(0))
       => /\ IsSchemaMessage(stdout[1])
          /\ IsDataMessage(Last(stdout))
          /\ Last(stdout).progress = stdout[1].total_rows

\* An export of several windows has ended without a failure.
C1_Witness ==
    /\ pc = "done" /\ exit_code = Some(0)
    /\ Len(DataMessages) >= 2
    /\ Last(stdout).progress = MaxRows

\* C2: the column names of the schema message are the key set of every row
\* object of every data message printed after it.
C2_SchemaKeysAreRowKeys ==
    \A n \in DOMAIN stdout :
        IsDataMessage(stdout[n]) =>
            /\ IsSchemaMessage(stdout[1])
            /\ \A r \in DOMAIN stdout[n].data :
                  RowKeys(stdout[n].data[r]) = SchemaKeys(stdout[1].schema)

\* A second window of a table with an array column and a column cut by
\* --max-cols has been printed.
C2_Witness ==
    /\ Len(DataMessages) >= 2
    /\ Len(column_names[1]) < Len(hdu_columns)
    /\ hdu_columns[1].k > 0
    /\ DataMessages[2].data # <<>>

RECURSIVE InPlace(_)
\* The columns after a flattening that puts the parts of an array column
\* where the column stood.
InPlace(cols) ==
    IF cols = <<>> THEN <<>>
    ELSE (IF Head(cols).k > 0
          THEN [e \in 1..Head(cols).k |-> PartName(Head(cols).name, e - 1)]
          ELSE <<Head(cols).name>>) \o InPlace(Tail(cols))

\* The native columns selected by column_names.
Selected == SelectSeq(hdu_columns, LAMBDA c : c.name \in Range(column_names[1]))

\* No native column is named like a part of a native array column.
NoNameCollision ==
    \A a \in DOMAIN hdu_columns, b \in DOMAIN hdu_columns, e \in 1..MaxDim :
        e <= hdu_columns[a].k =>
            hdu_columns[b].name # PartName(hdu_columns[a].name, e - 1)

\* C3: flattening replaces an array column of k elements by the k columns
\* {name}_1 .. {name}_k at the position of the column, scalar columns keeping
\* their places, in the schema and in every row: [POS (3 elements), FLUX]
\* becomes [POS_1, POS_2, POS_3, FLUX]. Stated for the tables in which no
\* column is named like a part of another, where no part replaces a column.
C3_FlattenInPlace ==
    NoNameCollision =>
        \A n \in DOMAIN stdout :
            /\ (IsSchemaMessage(stdout[n]) /\ rows_to_process # Some(0))
                  => colnames(stdout[n].schema.fields) = InPlace(Selected)
            /\ IsDataMessage(stdout[n])
                  => \A r \in DOMAIN stdout[n].data :
                        colnames(stdout[n].data[r]) = InPlace(Selected)

\* The row count the Row Limiter is to compute.
EffectiveRows ==
    IF max_rows[1] <= 0 THEN hdu_nrows ELSE Min(max_rows[1], hdu_nrows)

\* C4: total_rows of the schema message is the native row count when
\* --max-rows is zero or negative, and min(max_rows, native row count)
\* otherwise.
C4_TotalRowsIsEffectiveRows ==
    \A n \in DOMAIN stdout :
        IsSchemaMessage(stdout[n]) => stdout[n].total_rows = EffectiveRows

\* A schema message of a table with more rows than a positive --max-rows.
C4_Witness ==
    /\ stdout # <<>> /\ IsSchemaMessage(stdout[1])
    /\ max_rows[1] > 0 /\ hdu_nrows > max_rows[1]
    /\ stdout[1].total_rows = max_rows[1]

RowCapped == max_rows[1] > 0 /\ hdu_nrows > max_rows[1]
ColCapped == max_cols[1] > 0 /\ Len(hdu_columns) > max_cols[1]

\* C5: every schema message has a warning field; it is a text exactly when a
\* row cap or a column cap reduced a count, and holds both notices when both
\* did. This includes the schema message of a table without rows.
C5_WarningInEverySchemaMessage ==
    \A n \in DOMAIN stdout :
        IsSchemaMessage(stdout[n]) =>
            /\ "warning" \in DOMAIN stdout[n]
            /\ stdout[n].warning # None <=> (RowCapped \/ ColCapped)
            /\ (RowCapped /\ ColCapped) =>
                  /\ Contains(stdout[n].warning[1],
                              Tail(RowWarning(max_rows[1], hdu_nrows)))
                  /\ Contains(stdout[n].warning[1],
                              ColWarning(max_cols[1], Len(hdu_columns)))

\* C6: for a table with zero effective rows the export prints exactly one
\* message, the schema message with no data and total_rows 0, and the
\* process ends with exit code 0.
C6_EmptyTableOneMessage ==
    (IsData /\ rows_to_process = Some(0)) =>
        /\ \A n \in DOMAIN stdout :
              ~IsDataMessage(stdout[n]) /\ ~IsErrorMessage(stdout[n])
        /\ pc = "done" =>
              /\ Len(stdout) = 1
              /\ IsSchemaMessage(stdout[1])
              /\ stdout[1].data = <<>>
              /\ stdout[1].total_rows = 0
              /\ exit_code = Some(0)

\* The export of a table without rows has ended.
C6_Witness ==
    /\ pc = "done" /\ IsData /\ rows_to_process = Some(0)
    /\ hdu_nrows = 0 /\ stdout # <<>>

\* C7: the info command prints exactly one message; the exit code is 0 when
\* it is the array of HDUs and 1 when it is an error object.
C7_InfoExitCode ==
    (pc = "done" /\ IsInfo) =>
        /\ Len(stdout) = 1
        /\ IsInfoMessage(stdout[1]) => exit_code = Some(0)
        /\ IsErrorMessage(stdout[1]) => exit_code = Some(1)

\* A failure the data command detects before it streams: no file, no index,
\* an index outside the HDU list, an HDU that is no table.
EarlyFailure ==
    \/ file_kind = "missing"
    \/ hdu_index = None
    \/ /\ file_kind = "fits"
       /\ \/ hdu_index[1] < 0
          \/ hdu_index[1] >= Len(hdul)
          \/ ~IsTableHDU(hdul[hdu_index[1] + 1])

\* C8: a failure of the data command detected before streaming yields
\* exactly one error message, no schema message, no data message, and exit
\* code 1.
C8_EarlyFailureOneError ==
    (IsData /\ EarlyFailure) =>
        /\ \A n \in DOMAIN stdout : IsErrorMessage(stdout[n])
        /\ pc = "done" => (Len(stdout) = 1 /\ exit_code = Some(1))

\* A run asked for HDU -1 of a readable file, and has ended.
C8_Witness ==
    /\ pc = "done" /\ IsData /\ file_kind = "fits"
    /\ hdu_index = Some(-1)
    /\ stdout # <<>>

\* C9: when a window fails after the schema message, the messages printed
\* so far stay as printed, exactly one error message follows them and is the
\* last message of the run, and the exit code is not 0.
C9_MidStreamFailure ==
    /\ [](IsData =>
            /\ ErrorCount <= 1
            /\ ErrorCount = 1 =>
                  (IsErrorMessage(Last(stdout)) /\ pc = "done" /\ exit_code = Some(1)))
    /\ [][/\ pc # "done"
          /\ \A n \in DOMAIN stdout : n <= Len(stdout') /\ stdout'[n] = stdout[n]
          /\ (pc = "loop" /\ pc' = "except") => stdout' = stdout
          /\ (pc = "except" /\ stdout # <<>>) =>
                /\ stdout' = Append(stdout, ErrorMessage(exc[1]))
                /\ pc' = "done"]_vars

\* A run has ended with a schema message, data messages and then the error.
C9_Witness ==
    /\ pc = "done" /\ exit_code = Some(1)
    /\ Len(stdout) >= 3
    /\ IsSchemaMessage(stdout[1])
    /\ IsDataMessage(stdout[2])
    /\ IsErrorMessage(Last(stdout))

\* The number of native columns --max-cols is to select.
SelectedCount ==
    IF max_cols[1] <= 0 THEN Len(hdu_columns) ELSE Min(max_cols[1], Len(hdu_columns))

\* C10: the column cap takes the first min(max_cols, total) native columns
\* (all of them when max_cols <= 0) and flattens those: an array column
\* inside the cap contributes all its k columns, a column beyond the cap
\* contributes nothing.
C10_ColumnCapThenFlatten ==
    column_names # None =>
        /\ column_names[1] = SubSeq(colnames(hdu_columns), 1, SelectedCount)
        /\ \A n \in DOMAIN stdout :
              /\ (IsSchemaMessage(stdout[n]) /\ rows_to_process # Some(0)) =>
                    \A j \in 1..SelectedCount, e \in 1..MaxDim :
                        e <= hdu_columns[j].k =>
                            PartName(hdu_columns[j].name, e - 1)
                                \in SchemaKeys(stdout[n].schema)
              /\ IsDataMessage(stdout[n]) =>
                    \A r \in DOMAIN stdout[n].data :
                        LET row == stdout[n].data[r]
                            from == {<<row[m].value.src, row[m].value.comp>> :
                                        m \in DOMAIN row}
                        IN /\ \A j \in 1..SelectedCount, e \in 1..MaxDim :
                                 e <= hdu_columns[j].k =>
                                     <<hdu_columns[j].name, e>> \in from
                           /\ \A j \in (SelectedCount + 1)..Len(hdu_columns),
                                 e \in 0..MaxDim :
                                 <<hdu_columns[j].name, e>> \notin from

\* The row index a row object was read from (its first member's).
RowIndex(row) == row[1].value.row

RECURSIVE RowIndexes(_)
\* The row indexes of the rows of a sequence of data messages, in the order
\* they were printed.
RowIndexes(messages) ==
    IF messages = <<>> THEN <<>>
    ELSE [r \in DOMAIN Head(messages).data |-> RowIndex(Head(messages).data[r])]
            \o RowIndexes(Tail(messages))

\* ceil(a / b)
CeilDiv(a, b) == (a + b - 1) \div b

\* C11: the windows of an export of at least one row are a contiguous
\* partition of [0, effectiveRows) in increasing order: the rows printed so
\* far are the rows 0, 1, 2, ... without gap or repetition, every data
\* message has between 1 and chunk_size rows, every data message but the
\* last has exactly chunk_size rows, and a failure-free export ends with
\* ceil(effectiveRows / chunk_size) data messages holding all the rows.
C11_WindowsPartitionRows ==
    DataMessages # <<>> =>
        /\ RowIndexes(DataMessages) =
              [n \in 1..Len(RowIndexes(DataMessages)) |-> n - 1]
        /\ \A n \in DOMAIN DataMessages :
              /\ Len(DataMessages[n].data) >= 1
              /\ Len(DataMessages[n].data) <= chunk_size[1]
              /\ \A r \in DOMAIN DataMessages[n].data :
                    \A m \in DOMAIN DataMessages[n].data[r] :
                        DataMessages[n].data[r][m].value.row
                            = RowIndex(DataMessages[n].data[r])
              /\ n < Len(DataMessages)
                    => Len(DataMessages[n].data) = chunk_size[1]
              /\ Len(DataMessages[n].data) < chunk_size[1]
                    => DataMessages[n].progress = EffectiveRows
        /\ (pc = "done" /\ exit_code = Some(0)) =>
              /\ Len(DataMessages) = CeilDiv(EffectiveRows, chunk_size[1])
              /\ Len(RowIndexes(DataMessages)) = EffectiveRows

\* An export of three rows in windows of 2 has ended: two data messages, the
\* last one shorter.
C11_Witness ==
    /\ pc = "done" /\ exit_code = Some(0)
    /\ chunk_size = Some(2)
    /\ Len(DataMessages) = 2
    /\ Len(DataMessages[1].data) = 2
    /\ Len(DataMessages[2].data) = 1
    /\ Last(stdout).progress = 3

\* C12: the output of the data command is a single error message, or one
\* schema message, which is the first message, followed by data messages
\* only and at most one error message, which is then the last; no data
\* message comes before the schema message and no second schema message is
\* printed. A run that has ended has printed at least one message.
C12_OutputShape ==
    IsData =>
        /\ \A n \in DOMAIN stdout :
              /\ IsSchemaMessage(stdout[n]) => n = 1
              /\ IsDataMessage(stdout[n]) => (n > 1 /\ IsSchemaMessage(stdout[1]))
              /\ IsErrorMessage(stdout[n]) => (n = Len(stdout) /\ pc = "done")
              /\ IsSchemaMessage(stdout[n]) \/ IsDataMessage(stdout[n])
                    \/ IsErrorMessage(stdout[n])
        /\ pc = "done" => stdout # <<>>

\* A run has ended after a schema message and two data messages.
C12_Witness ==
    /\ pc = "done" /\ IsData
    /\ Len(stdout) = 3
    /\ IsSchemaMessage(stdout[1])
    /\ IsDataMessage(stdout[2])
    /\ IsDataMessage(stdout[3])

\* C13: a data message has exactly the fields data and progress; the warning
\* is in the schema message only, whatever caps were applied.
C13_NoWarningInDataMessages ==
    \A n \in DOMAIN stdout :
        IsDataMessage(stdout[n]) => DOMAIN stdout[n] = {"data", "progress"}

\* Data messages of an export whose rows and columns were both cut, and whose
\* schema message carries the warning.
C13_Witness ==
    /\ Len(stdout) >= 2
    /\ IsSchemaMessage(stdout[1])
    /\ RowCapped /\ ColCapped
    /\ stdout[1].warning # None
    /\ IsDataMessage(stdout[2])

\* C14: the file is closed on every exit path that opened it: when the
\* process has ended the handle is not open, a readable file that info or a
\* valid data run went through has been closed, and an error message of an
\* export is printed only when the handle is no longer open.
C14_ClosedOnEveryPath ==
    /\ pc \in {"done", "except"} => hdul_state # "open"
    /\ (pc = "done" /\ file_kind = "fits" /\ (IsInfo \/ hdu_index # None))
          => hdul_state = "closed"
    /\ (\E n \in DOMAIN stdout : IsErrorMessage(stdout[n])) => hdul_state # "open"

\* A window failed after data was printed: the handle was closed and the
\* error message printed.
C14_Witness ==
    /\ pc = "done" /\ IsData
    /\ hdul_state = "closed"
    /\ Len(stdout) >= 3
    /\ IsErrorMessage(Last(stdout))

RECURSIVE FlatCount(_)
\* The sum of the dimensionalities of a list of native columns: k for an
\* array column of k elements, 1 for a scalar column.
FlatCount(cols) ==
    IF cols = <<>> THEN 0
    ELSE (IF Head(cols).k > 0 THEN Head(cols).k ELSE 1) + FlatCount(Tail(cols))

\* C15: flattening loses and overwrites no column: the schema and every row
\* have as many columns as the selected native columns have elements, and
\* every selected scalar column is there under its name with its own values;
\* also when a scalar column is named like a part of an array column.
C15_FlattenLosesNothing ==
    \A n \in DOMAIN stdout :
        /\ (IsSchemaMessage(stdout[n]) /\ rows_to_process # Some(0)) =>
              Len(stdout[n].schema.fields) = FlatCount(Selected)
        /\ IsDataMessage(stdout[n]) =>
              \A r \in DOMAIN stdout[n].data :
                  LET row == stdout[n].data[r]
                  IN /\ Len(row) = FlatCount(Selected)
                     /\ \A j \in DOMAIN Selected :
                           Selected[j].k = 0 =>
                               \E m \in DOMAIN row :
                                   /\ row[m].name = Selected[j].name
                                   /\ row[m].value.src = Selected[j].name
                                   /\ row[m].value.comp = 0

====
